---- MODULE Spec2Model ----
(***************************************************************************)
(* Model of the hostel BI agent front end and start-up scripts:            *)
(*   - ChartView (frontend/src/ChartView.jsx): the chart-type inferencer,  *)
(*     a pure function of the result rows and the "Force chart" override;  *)
(*   - the BI path of the orchestrator, as the response envelope shown by  *)
(*     the query tab describes it;                                         *)
(*   - the container entrypoint and start.sh, which reindex the knowledge  *)
(*     base and then exec the service;                                     *)
(*   - the browser page: App with its Query and Chat tabs, the Chat        *)
(*     component's send() and the session id kept in localStorage.         *)
(***************************************************************************)
EXTENDS Integers, Sequences, FiniteSets, TLC

VARIABLES
    dataRows,           \* ChartView prop: result.data
    chartTypeOverride,  \* ChartView prop: App state chartOverride
    view,               \* what ChartView returned at the last render
    biPc,               \* BI path: the orchestrator's position in one request
    question,           \* BI path: the question of POST /api/query
    llmRaw,             \* BI path: the completion, once the model has answered
    sql,                \* BI path: the extracted SQL, <<>> when none was found
    safetyOk,           \* BI path: the validator's verdict
    execCalls,          \* BI path: the SQL handed to the Query Executor
    envelope,           \* BI path: the response body, once returned
    panel,              \* query tab: the "Extracted SQL" section as shown
    bootScript,         \* start-up: which script runs, "entrypoint" or "start.sh"
    reindexToggle,      \* start-up: the value of REINDEX_KB in the environment
    bootArgs,           \* start-up: the script's arguments, "$@"
    bootPc,             \* start-up: the script's position
    reindex,            \* start-up: the reindex job: not run, running, or exited
    kbFolder,           \* start-up: the folder reindex_kb.sh ingests
    bootLog,            \* start-up: the lines echoed so far
    launched,           \* start-up: the command the shell was replaced by
    pageLoads,          \* browser: how many times the page has been loaded
    build,              \* browser: which Chat module the bundle holds
    storageItem,        \* browser: localStorage["agentic_session_id"]
    randomDraws,        \* browser: how many random ids have been drawn
    SESSION_ID,         \* page: the module constant of Chat.jsx
    loadLog,            \* history: what getSessionId did at each page load
    tab,                \* App state: "query" or "chat"
    messages,           \* Chat state: the transcript
    input,              \* Chat state: the textarea
    loading,            \* Chat state
    chatCalls,          \* the /api/chat fetches that have not settled
    chatSent,           \* history: every /api/chat request issued
    chatSettled,        \* history: how many /api/chat fetches have settled
    queryQuestion,      \* App state: question
    queryLoading,       \* App state: loading
    result,             \* App state
    error,              \* App state
    queryCalls,         \* the /api/query fetches that have not settled
    querySent,          \* history: how many /api/query requests were issued
    clearedSinceSubmit  \* history: Clear was pressed after the last submit

chartVars == <<dataRows, chartTypeOverride, view>>

biVars == <<biPc, question, llmRaw, sql, safetyOk, execCalls, envelope, panel>>

bootVars == <<bootScript, reindexToggle, bootArgs, bootPc, reindex, kbFolder,
              bootLog, launched>>

browserVars == <<pageLoads, build, storageItem, randomDraws, SESSION_ID, loadLog, tab>>

chatVars == <<messages, input, loading, chatCalls, chatSent, chatSettled>>

queryVars == <<queryQuestion, queryLoading, result, error, queryCalls,
               querySent, clearedSinceSubmit>>

pageVars == <<browserVars, chatVars, queryVars>>

\* What the actions of one part leave alone.
ChartFrame == UNCHANGED <<biVars, bootVars, pageVars>>

BIFrame == UNCHANGED <<chartVars, bootVars, pageVars>>

BootFrame == UNCHANGED <<chartVars, biVars, pageVars>>

\* The page's actions leave the chart, the orchestrator and the process alone.
PageFrame == UNCHANGED <<chartVars, biVars, bootVars>>

(***************************************************************************)
(* JavaScript values.  A cell of a row is null, undefined (the key is      *)
(* missing), a number (an integer here, or NaN) or a string.  A string is  *)
(* a sequence of one-character strings so that String() and Number() can   *)
(* be computed character by character.                                     *)
(***************************************************************************)
Null      == [t |-> "null",      n |-> 0, s |-> <<>>]
Undefined == [t |-> "undefined", n |-> 0, s |-> <<>>]
NaN       == [t |-> "nan",       n |-> 0, s |-> <<>>]
Num(k)    == [t |-> "number",    n |-> k, s |-> <<>>]
Str(cs)   == [t |-> "string",    n |-> 0, s |-> cs]

Digits == <<"0", "1", "2", "3", "4", "5", "6", "7", "8", "9">>

IsDigit(c) == \E d \in 1..10 : Digits[d] = c

DigitValue(c) == (CHOOSE d \in 1..10 : Digits[d] = c) - 1

Min(a, b) == IF a <= b THEN a ELSE b

\* Decimal digits of a natural number, most significant first.
RECURSIVE NatToChars(_)
NatToChars(k) ==
    IF k < 10 THEN <<Digits[k + 1]>>
    ELSE NatToChars(k \div 10) \o <<Digits[(k % 10) + 1]>>

\* String(v): the JavaScript string conversion.
JSString(v) ==
    CASE v.t = "null"      -> Str(<<"n", "u", "l", "l">>)
      [] v.t = "undefined" -> Str(<<"u", "n", "d", "e", "f", "i", "n", "e", "d">>)
      [] v.t = "nan"       -> Str(<<"N", "a", "N">>)
      [] v.t = "number"    -> IF v.n < 0 THEN Str(<<"-">> \o NatToChars(0 - v.n))
                                         ELSE Str(NatToChars(v.n))
      [] v.t = "string"    -> v

\* StringToNumber: white space is trimmed, the empty string is 0, an
\* optionally signed run of decimal digits is its value, anything else NaN.
RECURSIVE TrimLeft(_)
TrimLeft(cs) ==
    IF cs # <<>> /\ Head(cs) = " " THEN TrimLeft(Tail(cs)) ELSE cs

RECURSIVE TrimRight(_)
TrimRight(cs) ==
    IF cs # <<>> /\ cs[Len(cs)] = " " THEN TrimRight(SubSeq(cs, 1, Len(cs) - 1)) ELSE cs

RECURSIVE DigitsToNat(_, _)
DigitsToNat(cs, acc) ==
    IF cs = <<>> THEN acc
    ELSE DigitsToNat(Tail(cs), acc * 10 + DigitValue(Head(cs)))

UnsignedToNumber(cs, sign) ==
    IF cs # <<>> /\ \A i \in 1..Len(cs) : IsDigit(cs[i])
    THEN Num(sign * DigitsToNat(cs, 0))
    ELSE NaN

StringToNumber(cs) ==
    LET t == TrimRight(TrimLeft(cs)) IN
    IF t = <<>> THEN Num(0)
    ELSE IF Head(t) = "-" THEN UnsignedToNumber(Tail(t), -1)
    ELSE IF Head(t) = "+" THEN UnsignedToNumber(Tail(t), 1)
    ELSE UnsignedToNumber(t, 1)

\* Number(v): the JavaScript numeric conversion.
JSNumber(v) ==
    CASE v.t = "null"      -> Num(0)
      [] v.t = "undefined" -> NaN
      [] v.t = "nan"       -> NaN
      [] v.t = "number"    -> v
      [] v.t = "string"    -> StringToNumber(v.s)

\* a ?? b
Nullish(v) == v.t = "null" \/ v.t = "undefined"

Coalesce(v, dflt) == IF Nullish(v) THEN dflt ELSE v

(***************************************************************************)
(* Rows.  A row is an object: a sequence of (key, value) pairs in key      *)
(* insertion order, which is the order Object.keys returns.  Column names  *)
(* are the non-empty names of a SQL result.                                *)
(***************************************************************************)
ObjectKeys(row) == [j \in 1..Len(row) |-> row[j].k]

\* row[c]: the value under key c, undefined when the row has no such key.
Get(row, c) ==
    IF \E j \in 1..Len(row) : row[j].k = c
    THEN row[CHOOSE j \in 1..Len(row) : row[j].k = c].v
    ELSE Undefined

\* dataRows is null, undefined or an array of rows.
NullRows      == [t |-> "null",      rows |-> <<>>]
UndefinedRows == [t |-> "undefined", rows |-> <<>>]
Array(rs)     == [t |-> "array",     rows |-> rs]

\* null as the value of catCol / numCol / chartTypeOverride; no column and
\* no option of the select carries this name.
NoCol      == "(null)"
NoOverride == "(null)"

\* JavaScript truthiness of a column name or null.
Truthy(c) == c # NoCol /\ c # ""

(***************************************************************************)
(* ChartView({ dataRows, chartTypeOverride = null })                       *)
(***************************************************************************)
SampleLimit == 50

NumericCap == 5

PieMaxLabels == 10

\* Variant: the guard tests !dataRows only.
IsEmptyInputNullOnly(data) == data.t # "array"

\* if (!dataRows || dataRows.length === 0) return null;
IsEmptyInput(data) == data.t # "array" \/ Len(data.rows) = 0

isNumeric(val) ==
    val.t # "null" /\ val.t # "undefined" /\ JSNumber(val).t # "nan"

\* Variant: every row is sampled.
SampleSizeAllRows(rows) == Len(rows)

\* for (let i = 0; i < Math.min(dataRows.length, 50); i++)
\*   if (isNumeric(dataRows[i][c])) numericCount++;
SampleSize(rows) == Min(Len(rows), SampleLimit)

RECURSIVE CountLoop(_, _, _, _)
CountLoop(rows, c, i, numericCount) ==
    IF i < SampleSize(rows)
    THEN CountLoop(rows, c, i + 1,
                   IF isNumeric(Get(rows[i + 1], c)) THEN numericCount + 1
                                                     ELSE numericCount)
    ELSE numericCount

colStats(rows, c) ==
    [numericCount |-> CountLoop(rows, c, 0, 0), sampleValue |-> Get(rows[1], c)]

\* Math.min(5, Math.floor(dataRows.length / 2))
NumericThreshold(rows) == Min(NumericCap, Len(rows) \div 2)

\* colStats[c].numericCount >= Math.min(5, Math.floor(dataRows.length / 2))
IsNumericCandidate(rows, c) ==
    colStats(rows, c).numericCount >= NumericThreshold(rows)

\* Variant: the last column of each kind is kept.
RECURSIVE SelectLoopLastMatch(_, _, _, _)
SelectLoopLastMatch(rows, cols, j, sel) ==
    IF j > Len(cols) THEN sel
    ELSE LET c == cols[j] IN
         IF colStats(rows, c).numericCount >= Min(NumericCap, Len(rows) \div 2)
         THEN SelectLoopLastMatch(rows, cols, j + 1, [sel EXCEPT !.numCol = c])
         ELSE SelectLoopLastMatch(rows, cols, j + 1, [sel EXCEPT !.catCol = c])

\* The selection loop over cols: the first column of each kind is kept.
RECURSIVE SelectLoop(_, _, _, _)
SelectLoop(rows, cols, j, sel) ==
    IF j > Len(cols) THEN sel
    ELSE LET c == cols[j] IN
         IF IsNumericCandidate(rows, c)
         THEN SelectLoop(rows, cols, j + 1,
                         IF ~Truthy(sel.numCol) THEN [sel EXCEPT !.numCol = c] ELSE sel)
         ELSE SelectLoop(rows, cols, j + 1,
                         IF ~Truthy(sel.catCol) THEN [sel EXCEPT !.catCol = c] ELSE sel)

\* cols.find((c) => c !== numCol)
FindOther(cols, numCol) ==
    IF \E j \in 1..Len(cols) : cols[j] # numCol
    THEN cols[CHOOSE j \in 1..Len(cols) :
                 cols[j] # numCol /\ \A h \in 1..(j - 1) : cols[h] = numCol]
    ELSE NoCol

\* if (!catCol && cols.length === 2 && numCol) catCol = cols.find(...)
Fallback(cols, sel) ==
    IF ~Truthy(sel.catCol) /\ Len(cols) = 2 /\ Truthy(sel.numCol)
    THEN [sel EXCEPT !.catCol = FindOther(cols, sel.numCol)]
    ELSE sel

\* catCol and numCol as they stand when the chart is built.
Selection(rows) ==
    LET cols == ObjectKeys(rows[1]) IN
    Fallback(cols, SelectLoop(rows, cols, 1, [catCol |-> NoCol, numCol |-> NoCol]))

\* Variant: String(r[catCol]) without the default.
LabelOfNoDefault(r, catCol) == JSString(Get(r, catCol))

\* dataRows.map((r) => String(r[catCol] ?? ""))
LabelOf(r, catCol) == JSString(Coalesce(Get(r, catCol), Str(<<>>)))

\* dataRows.map((r) => Number(r[numCol] ?? 0))
ValueOf(r, numCol) == JSNumber(Coalesce(Get(r, numCol), Num(0)))

\* Variant: labels.length < 10.
ChoosePieBelowTen(labels, override) ==
    override = "pie" \/ (Len(labels) < PieMaxLabels /\ override # "bar")

\* chartTypeOverride === "pie" || (labels.length <= 10 && chartTypeOverride !== "bar")
ChoosePie(labels, override) ==
    override = "pie" \/ (Len(labels) <= PieMaxLabels /\ override # "bar")

\* What a render returns: null, a <Pie>, <Bar> or <Line> element with its
\* data, or a TypeError thrown while rendering.
NoChart == [kind |-> "none", catCol |-> NoCol, numCol |-> NoCol,
            labels |-> <<>>, values |-> <<>>]

TypeError == [kind |-> "TypeError", catCol |-> NoCol, numCol |-> NoCol,
              labels |-> <<>>, values |-> <<>>]

CatNumChart(rows, sel, override) ==
    LET labels == [i \in 1..Len(rows) |-> LabelOf(rows[i], sel.catCol)]
        values == [i \in 1..Len(rows) |-> ValueOf(rows[i], sel.numCol)]
    IN  [kind   |-> IF ChoosePie(labels, override) THEN "pie" ELSE "bar",
         catCol |-> sel.catCol, numCol |-> sel.numCol,
         labels |-> labels, values |-> values]

\* Variant: x labels are the 0-based row index.
LineChartZeroBased(rows, cols) ==
    [kind   |-> "line", catCol |-> NoCol, numCol |-> cols[1],
     labels |-> [i \in 1..Len(rows) |-> Num(i - 1)],
     values |-> [i \in 1..Len(rows) |-> JSNumber(Coalesce(Get(rows[i], cols[1]), Num(0)))]]

LineChart(rows, cols) ==
    [kind   |-> "line", catCol |-> NoCol, numCol |-> cols[1],
     labels |-> [i \in 1..Len(rows) |-> Num(i)],
     values |-> [i \in 1..Len(rows) |-> ValueOf(rows[i], cols[1])]]

ChartView(data, override) ==
    IF IsEmptyInput(data) THEN NoChart
    ELSE IF data.t # "array" \/ data.rows = <<>> THEN TypeError
    ELSE LET rows == data.rows
             cols == ObjectKeys(rows[1])
             sel  == Selection(rows)
         IN  IF Truthy(sel.catCol) /\ Truthy(sel.numCol)
             THEN CatNumChart(rows, sel, override)
             ELSE IF ~Truthy(sel.catCol) /\ Truthy(sel.numCol) /\ Len(cols) = 1
             THEN LineChart(rows, cols)
             ELSE NoChart

(***************************************************************************)
(* Result sets fed to ChartView.  A result set has n rows over the columns *)
(* cols; its first k rows are copies of one row and the rest copies of     *)
(* another, so that a column's numeric count is set by k and n.            *)
(***************************************************************************)
MaxCols == 3

MaxRows == 11

MaxCut == 5

MaxWideRows == 4

\* Row counts on both sides of the 50-row sample.
LargeRowCounts == {SampleLimit, SampleLimit + 1, SampleLimit + NumericCap}

ColumnList == <<"block", "seats", "gender", "year">>

\* The first m columns, in the order of the SELECT list or in the opposite
\* order.  The cells of every position vary freely, so the orders differ
\* only in which name stands where.
ColumnOrders(m) ==
    {[j \in 1..m |-> ColumnList[j]], [j \in 1..m |-> ColumnList[m + 1 - j]]}

CellValues(m) ==
    IF m = 1
    THEN {Null, Undefined, Num(7), Num(-3), Str(<<>>), Str(<<"1", "2">>),
          Str(<<" ", "4", " ">>), Str(<<"A", "1">>)}
    ELSE IF m = 2
    THEN {Null, Num(7), Str(<<"A">>)}
    ELSE {Num(7), Str(<<"A">>)}

RowCounts(m) ==
    IF m = 1 THEN (1..MaxRows) \cup LargeRowCounts
    ELSE IF m = 2 THEN 1..MaxRows
    ELSE 1..MaxWideRows

Cuts(n) == {k \in 0..n : k <= MaxCut \/ k = SampleLimit}

MakeRow(cols, vals) == [j \in 1..Len(cols) |-> [k |-> cols[j], v |-> vals[j]]]

ResultSet(cols, n, k, head, tail) ==
    [i \in 1..n |-> IF i <= k THEN MakeRow(cols, head) ELSE MakeRow(cols, tail)]

Overrides == {NoOverride, "bar", "pie", "line"}

NotRendered == [kind |-> "unrendered", catCol |-> NoCol, numCol |-> NoCol,
                labels |-> <<>>, values |-> <<>>]

InitChart ==
    /\ \/ dataRows \in {NullRows, UndefinedRows, Array(<<>>)}
       \/ \E m \in 1..Min(MaxCols, Len(ColumnList)) :
          \E cols \in ColumnOrders(m) :
          \E n \in RowCounts(m) :
          \E k \in Cuts(n) :
          \E head \in [1..m -> CellValues(m)] :
          \E tail \in [1..m -> CellValues(m)] :
             dataRows = Array(ResultSet(cols, n, k, head, tail))
    /\ chartTypeOverride = NoOverride
    /\ view = NotRendered

\* React renders <ChartView dataRows={result.data} chartTypeOverride={chartOverride} />
Render ==
    /\ view.kind = "unrendered"
    /\ view' = ChartView(dataRows, chartTypeOverride)
    /\ UNCHANGED <<dataRows, chartTypeOverride>>
    /\ ChartFrame

\* onChange of the "Force chart" select: setChartOverride(e.target.value || null),
\* followed by the re-render.
SetChartOverride(o) ==
    /\ view.kind \notin {"unrendered", "TypeError"}
    /\ o # chartTypeOverride
    /\ chartTypeOverride' = o
    /\ view' = ChartView(dataRows, o)
    /\ UNCHANGED dataRows
    /\ ChartFrame

NextChart ==
    \/ Render
    \/ \E o \in Overrides : SetChartOverride(o)

(***************************************************************************)
(* The BI path of the orchestrator (POST /api/query): prompt, completion,  *)
(* SQL extraction, safety validation, execution, response envelope; and    *)
(* the "Extracted SQL" section of the query tab that shows the envelope.   *)
(* A SQL text is the sequence of the verbs of its statements; <<>> is the  *)
(* empty text.  A completion either carries a fenced SQL text or does not. *)
(***************************************************************************)
MaxStatements == 2

Verbs == {"SELECT", "DROP", "UPDATE"}

SqlTexts == UNION {[1..len -> Verbs] : len \in 0..MaxStatements}

Completions == [fenced : BOOLEAN, stmts : SqlTexts]

Questions == {"seats per block", "drop the seats table"}

DbOutcomes == {"rows", "error"}

NoEnvelope == [sent |-> FALSE, sql |-> <<>>, safety_ok |-> FALSE, data |-> <<>>,
               error |-> "", prompt |-> "", llm_raw |-> [fenced |-> FALSE, stmts |-> <<>>]]

NoPanel == [shown |-> FALSE, sqlText |-> <<>>, safety |-> ""]

\* extract(rawCompletion): the fenced SQL text, <<>> when there is none.
extract(rawCompletion) == IF rawCompletion.fenced THEN rawCompletion.stmts ELSE <<>>

\* validate(sql): exactly one statement, and that statement a read-only query.
validate(text) == Len(text) = 1 /\ text[1] = "SELECT"

\* Variant: execution is attempted whenever SQL was extracted.
MayExecuteAnyExtracted(text, ok) == text # <<>>

\* "if safe, execute": the executor is reached with extracted, accepted SQL.
MayExecute(text, ok) == text # <<>> /\ ok

\* {result.sql || "(no SQL)"}
ShowSql(text) == IF text = <<>> THEN <<"(no SQL)">> ELSE text

\* {result.safety_ok ? "PASSED" : "FAILED"}
ShowSafety(ok) == IF ok THEN "PASSED" ELSE "FAILED"

InitBI ==
    /\ biPc = "idle"
    /\ question = ""
    /\ llmRaw = [fenced |-> FALSE, stmts |-> <<>>]
    /\ sql = <<>>
    /\ safetyOk = FALSE
    /\ execCalls = <<>>
    /\ envelope = NoEnvelope
    /\ panel = NoPanel

\* A request arrives; the schema-aware prompt is assembled from the question.
Ask(q) ==
    /\ biPc = "idle"
    /\ biPc' = "prompted"
    /\ question' = q
    /\ llmRaw' = [fenced |-> FALSE, stmts |-> <<>>]
    /\ sql' = <<>>
    /\ safetyOk' = FALSE
    /\ execCalls' = <<>>
    /\ envelope' = NoEnvelope
    /\ panel' = NoPanel
    /\ BIFrame

\* The language model answers.
Complete(c) ==
    /\ biPc = "prompted"
    /\ biPc' = "completed"
    /\ llmRaw' = c
    /\ UNCHANGED <<question, sql, safetyOk, execCalls, envelope, panel>>
    /\ BIFrame

\* SQL is extracted from the completion and validated.
ExtractAndValidate ==
    /\ biPc = "completed"
    /\ biPc' = "validated"
    /\ sql' = extract(llmRaw)
    /\ safetyOk' = validate(extract(llmRaw))
    /\ UNCHANGED <<question, llmRaw, execCalls, envelope, panel>>
    /\ BIFrame

Respond(data, err) ==
    [sent |-> TRUE, sql |-> sql, safety_ok |-> safetyOk, data |-> data,
     error |-> err, prompt |-> question, llm_raw |-> llmRaw]

\* The accepted SQL goes to the Query Executor; rows or an error come back.
Execute(outcome) ==
    /\ biPc = "validated"
    /\ MayExecute(sql, safetyOk)
    /\ biPc' = "responded"
    /\ execCalls' = Append(execCalls, sql)
    /\ envelope' = IF outcome = "rows" THEN Respond(<<"row">>, "")
                                       ELSE Respond(<<>>, "execution error")
    /\ UNCHANGED <<question, llmRaw, sql, safetyOk, panel>>
    /\ BIFrame

\* No SQL, or SQL the validator rejected: execution is skipped.
Skip ==
    /\ biPc = "validated"
    /\ ~MayExecute(sql, safetyOk)
    /\ biPc' = "responded"
    /\ envelope' = Respond(<<>>, "unsafe or missing SQL")
    /\ UNCHANGED <<question, llmRaw, sql, safetyOk, execCalls, panel>>
    /\ BIFrame

\* The query tab shows section 3 of the result.
ShowResult ==
    /\ biPc = "responded"
    /\ biPc' = "idle"
    /\ panel' = [shown |-> TRUE, sqlText |-> ShowSql(envelope.sql),
                 safety |-> ShowSafety(envelope.safety_ok)]
    /\ UNCHANGED <<question, llmRaw, sql, safetyOk, execCalls, envelope>>
    /\ BIFrame

NextBI ==
    \/ \E q \in Questions : Ask(q)
    \/ \E c \in Completions : Complete(c)
    \/ ExtractAndValidate
    \/ \E outcome \in DbOutcomes : Execute(outcome)
    \/ Skip
    \/ ShowResult

(***************************************************************************)
(* Start-up.  The container entrypoint reindexes the knowledge base when   *)
(* REINDEX_KB allows it and then execs its arguments; start.sh waits,      *)
(* reindexes and execs uvicorn.  Both call scripts/reindex_kb.sh, whose    *)
(* exit status is that of the Python ingestion it runs.                    *)
(***************************************************************************)
MaxExitStatus == 2

\* 126 and 127: the script or the interpreter cannot be run.
ExitStatuses == (0..MaxExitStatus) \cup {126, 127}

Unset == "(unset)"

ToggleValues == {Unset, "true", "false", "1", ""}

Uvicorn == <<"uvicorn", "app:app", "--host", "0.0.0.0", "--port", "8000">>

ArgLists == {<<>>, Uvicorn, <<"python", "app.py">>}

\* "${REINDEX_KB:-true}" = "true"   (:- also replaces the empty value)
ToggleEnabled(value) ==
    (IF value = Unset \/ value = "" THEN "true" ELSE value) = "true"

\* KB_FOLDER=${1:-knowledge_base}
KbFolderOf(script) ==
    IF script = "entrypoint" THEN "/app/knowledge_base" ELSE "knowledge_base"

FailureLine(script) ==
    IF script = "entrypoint" THEN "reindex failed, continuing..."
                             ELSE "Reindex failed - continuing startup."

\* Variant: without "|| echo ...", set -e ends the script on a failed reindex.
OnReindexExitErrexit(script, status, log) ==
    IF status = 0
    THEN [pc |-> IF script = "entrypoint" THEN "exec" ELSE "announce", log |-> log]
    ELSE [pc |-> "aborted", log |-> log]

\* reindex_kb.sh ... || echo "...": a non-zero status runs the echo, and the
\* list as a whole succeeds, so set -e does not end the script.
OnReindexExit(script, status, log) ==
    [pc  |-> IF script = "entrypoint" THEN "exec" ELSE "announce",
     log |-> IF status = 0 THEN log ELSE Append(log, FailureLine(script))]

InitBoot ==
    /\ bootScript = "entrypoint"
    /\ reindexToggle = Unset
    /\ bootArgs = <<>>
    /\ bootPc = "not started"
    /\ reindex = [state |-> "not run", status |-> 0]
    /\ kbFolder = ""
    /\ bootLog = <<>>
    /\ launched = <<>>

\* The process starts with its script, environment and arguments.
StartProcess(script, toggle, args) ==
    /\ bootPc = "not started"
    /\ bootScript' = script
    /\ reindexToggle' = toggle
    /\ bootArgs' = args
    /\ bootPc' = IF script = "entrypoint" THEN "test" ELSE "wait"
    /\ bootLog' = IF script = "entrypoint" THEN bootLog
                  ELSE Append(bootLog, "Waiting for Qdrant to be ready...")
    /\ UNCHANGED <<reindex, kbFolder, launched>>
    /\ BootFrame

\* entrypoint: if [ "${REINDEX_KB:-true}" = "true" ]; then echo; reindex_kb.sh ...
TestToggle ==
    /\ bootPc = "test"
    /\ IF ToggleEnabled(reindexToggle)
       THEN /\ bootLog' = Append(bootLog, "Reindexing KB...")
            /\ reindex' = [state |-> "running", status |-> 0]
            /\ kbFolder' = KbFolderOf(bootScript)
            /\ bootPc' = "reindex"
       ELSE /\ bootPc' = "exec"
            /\ UNCHANGED <<bootLog, reindex, kbFolder>>
    /\ UNCHANGED <<bootScript, reindexToggle, bootArgs, launched>>
    /\ BootFrame

\* start.sh: sleep 5; echo "Reindexing Knowledge Base..."; ./scripts/reindex_kb.sh
SleepThenReindex ==
    /\ bootPc = "wait"
    /\ bootLog' = Append(bootLog, "Reindexing Knowledge Base...")
    /\ reindex' = [state |-> "running", status |-> 0]
    /\ kbFolder' = KbFolderOf(bootScript)
    /\ bootPc' = "reindex"
    /\ UNCHANGED <<bootScript, reindexToggle, bootArgs, launched>>
    /\ BootFrame

\* The reindex job ends with some status; the script goes on from there.
ReindexExits(status) ==
    /\ bootPc = "reindex"
    /\ reindex.state = "running"
    /\ reindex' = [state |-> "exited", status |-> status]
    /\ bootPc' = OnReindexExit(bootScript, status, bootLog).pc
    /\ bootLog' = OnReindexExit(bootScript, status, bootLog).log
    /\ UNCHANGED <<bootScript, reindexToggle, bootArgs, kbFolder, launched>>
    /\ BootFrame

\* start.sh: echo "Starting backend..."
Announce ==
    /\ bootPc = "announce"
    /\ bootLog' = Append(bootLog, "Starting backend...")
    /\ bootPc' = "exec"
    /\ UNCHANGED <<bootScript, reindexToggle, bootArgs, reindex, kbFolder, launched>>
    /\ BootFrame

\* The command the script execs: its arguments, or uvicorn in start.sh.
ServiceCommand(script, args) == IF script = "entrypoint" THEN args ELSE Uvicorn

\* exec "$@"  /  exec uvicorn app:app ...   (exec without a command does
\* nothing, and the script then ends)
ExecService ==
    /\ bootPc = "exec"
    /\ launched' = ServiceCommand(bootScript, bootArgs)
    /\ bootPc' = IF ServiceCommand(bootScript, bootArgs) = <<>> THEN "exited"
                                                               ELSE "launched"
    /\ UNCHANGED <<bootScript, reindexToggle, bootArgs, reindex, kbFolder, bootLog>>
    /\ BootFrame

NextBoot ==
    \/ \E script \in {"entrypoint", "start.sh"} :
       \E toggle \in ToggleValues :
       \E args \in ArgLists : StartProcess(script, toggle, args)
    \/ TestToggle
    \/ SleepThenReindex
    \/ \E status \in ExitStatuses : ReindexExits(status)
    \/ Announce
    \/ ExecService

(***************************************************************************)
(* The browser page.  Chat.jsx evaluates getSessionId() once per page load *)
(* and keeps the answer in the module constant SESSION_ID; App shows the   *)
(* Query tab or the Chat tab, and mounts Chat only while its tab is shown. *)
(* The older Chat module (part_001) has the same send() but no session id. *)
(***************************************************************************)
MaxPageLoads == 2

MaxSends == 2

\* No id: localStorage.getItem answered null, or the bundle has no SESSION_ID.
NoSid == 0

\* How localStorage behaves during one page load: it works, it reads but
\* setItem throws (quota, private mode), or every access throws (site data
\* blocked).
StorageModes == {"ok", "readonly", "blocked"}

Builds == {"Chat.jsx", "part_001"}

NoBuild == "(none)"

\* The k-th id drawn from crypto.randomUUID() or Math.random(): a draw never
\* repeats an earlier one.
RandomId(k) == k

\* Variant: a new id at every call, whatever is stored.
getSessionIdAlwaysNew(item, storage, draws) ==
    IF storage = "ok"
    THEN [sid |-> RandomId(draws + 1), item |-> RandomId(draws + 1), draws |-> draws + 1]
    ELSE [sid |-> RandomId(draws + 1), item |-> item, draws |-> draws + 1]

\* getSessionId() with the item found in storage and `draws' ids drawn so
\* far: the id returned, the item left in storage, the ids drawn afterwards.
getSessionId(item, storage, draws) ==
    IF storage = "blocked"
    THEN \* getItem throws: the catch branch draws an id and stores nothing
         [sid |-> RandomId(draws + 1), item |-> item, draws |-> draws + 1]
    ELSE IF item # NoSid
    THEN [sid |-> item, item |-> item, draws |-> draws]
    ELSE IF storage = "readonly"
    THEN \* an id is drawn, setItem throws, the catch branch draws another
         [sid |-> RandomId(draws + 2), item |-> item, draws |-> draws + 2]
    ELSE [sid |-> RandomId(draws + 1), item |-> RandomId(draws + 1), draws |-> draws + 1]

\* Module evaluation at page load: const SESSION_ID = getSessionId().
ModuleLoad(b, item, storage, draws) ==
    IF b = "Chat.jsx" THEN getSessionId(item, storage, draws)
    ELSE [sid |-> NoSid, item |-> item, draws |-> draws]

InitBrowser ==
    /\ pageLoads = 0
    /\ build = NoBuild
    /\ storageItem = NoSid
    /\ randomDraws = 0
    /\ SESSION_ID = NoSid
    /\ loadLog = <<>>
    /\ tab = "query"

\* useState([]), useState(""), useState(false) of Chat.
ChatMounted(msgs, inp, ld) ==
    /\ msgs = <<>>
    /\ inp = <<>>
    /\ ld = FALSE

InitChat ==
    /\ ChatMounted(messages, input, loading)
    /\ chatCalls = {}
    /\ chatSent = <<>>
    /\ chatSettled = 0

\* The useState initial values of App.
AppMounted(q, ld, res, err) ==
    /\ q = <<>>
    /\ ld = FALSE
    /\ res = Null
    /\ err = Null

InitQuery ==
    /\ AppMounted(queryQuestion, queryLoading, result, error)
    /\ queryCalls = {}
    /\ querySent = 0
    /\ clearedSinceSubmit = FALSE

\* The page is opened, or reloaded: the module is evaluated again, every
\* component starts from its initial state and the pending fetches of the
\* old document are aborted.  localStorage survives.
LoadPage(b, storage) ==
    /\ pageLoads < MaxPageLoads
    /\ pageLoads = 0 \/ b = build
    /\ LET r == ModuleLoad(b, storageItem, storage, randomDraws) IN
         /\ SESSION_ID' = r.sid
         /\ storageItem' = r.item
         /\ randomDraws' = r.draws
         /\ loadLog' = Append(loadLog, [storage |-> storage, sid |-> r.sid,
                                        before |-> storageItem, after |-> r.item])
    /\ pageLoads' = pageLoads + 1
    /\ build' = b
    /\ tab' = "query"
    /\ ChatMounted(messages', input', loading')
    /\ chatCalls' = {}
    /\ AppMounted(queryQuestion', queryLoading', result', error')
    /\ queryCalls' = {}
    /\ clearedSinceSubmit' = FALSE
    /\ UNCHANGED <<chatSent, chatSettled, querySent>>
    /\ PageFrame

\* The Query and Chat buttons of the header.  Leaving the Chat tab unmounts
\* Chat: its state is dropped, its pending fetches go on and their
\* continuations update a component that is no longer there.
SetTab(t) ==
    /\ pageLoads > 0
    /\ tab # t
    /\ tab' = t
    /\ ChatMounted(messages', input', loading')
    /\ chatCalls' = {[c EXCEPT !.live = FALSE] : c \in chatCalls}
    /\ UNCHANGED <<pageLoads, build, storageItem, randomDraws, SESSION_ID, loadLog,
                   chatSent, chatSettled, queryVars>>
    /\ PageFrame

(***************************************************************************)
(* Chat: send() and the continuation of its fetch.                         *)
(***************************************************************************)
\* ToBoolean of a JavaScript value.
ToBoolean(v) ==
    CASE v.t = "string" -> v.s # <<>>
      [] v.t = "number" -> v.n # 0
      [] OTHER          -> FALSE

\* a || b
Or(a, b) == IF ToBoolean(a) THEN a ELSE b

\* s.trim()
trim(s) == TrimRight(TrimLeft(s))

\* An Error object, and String(err).
Error(name, message) == [name |-> name, message |-> message]

ErrorToString(err) ==
    IF err.message = <<>> THEN err.name ELSE err.name \o <<":", " ">> \o err.message

\* What the textarea may hold.
Inputs == {<<>>, <<" ">>, <<" ", "h", "i", " ">>}

\* The JSON bodies of a 2xx answer of /api/chat, as far as send() reads them.
NoData == [answer |-> Undefined, llm_raw |-> Undefined, message |-> Undefined]

Envelopes ==
    { [NoData EXCEPT !.answer = Str(<<"1", "2">>), !.llm_raw = Str(<<"r", "a", "w">>)],
      [NoData EXCEPT !.answer = Str(<<>>), !.llm_raw = Str(<<"r", "a", "w">>)],
      [NoData EXCEPT !.message = Str(<<"o", "k">>)],
      NoData }

\* How a fetch settles: a 2xx answer with a JSON body, a 2xx answer whose
\* body does not parse, a non-2xx answer with its text, or a rejection.
Outcomes ==
    { [kind |-> "json", status |-> 200, text |-> <<>>, data |-> d] : d \in Envelopes }
    \cup { [kind |-> "unparsable", status |-> 200, text |-> <<"<">>, data |-> NoData],
           [kind |-> "network", status |-> 0, text |-> <<>>, data |-> NoData],
           [kind |-> "http", status |-> 500, text |-> <<"b", "a", "d">>, data |-> NoData],
           [kind |-> "http", status |-> 404, text |-> <<>>, data |-> NoData] }

\* res.ok
ok(o) == o.kind \in {"json", "unparsable", "http"} /\ o.status >= 200 /\ o.status <= 299

\* What the try block throws, for an outcome that makes it throw.
Thrown(o) ==
    CASE o.kind = "network"    -> Error(<<"T", "y", "p", "e", "E", "r", "r", "o", "r">>, <<"F", "a", "i", "l", "e", "d", " ", "t", "o", " ", "f", "e", "t", "c", "h">>)
      [] o.kind = "http"       -> Error(<<"E", "r", "r", "o", "r">>, JSString(Or(Str(o.text), Num(o.status))).s)
      [] o.kind = "unparsable" -> Error(<<"S", "y", "n", "t", "a", "x", "E", "r", "r", "o", "r">>, <<"U", "n", "e", "x", "p", "e", "c", "t", "e", "d", " ", "t", "o", "k", "e", "n", " ", "<">>)

Throws(o) == o.kind = "network" \/ ~ok(o) \/ o.kind = "unparsable"

NoMeta == [has |-> FALSE, data |-> NoData]

Meta(d) == [has |-> TRUE, data |-> d]

UserMessage(text) == [role |-> "user", text |-> text, meta |-> NoMeta]

\* data.answer || data.llm_raw || data.message || ""; the older module does
\* not read llm_raw.
AnswerText(b, d) ==
    IF b = "Chat.jsx"
    THEN Or(Or(Or(d.answer, d.llm_raw), d.message), Str(<<>>)).s
    ELSE Or(Or(d.answer, d.message), Str(<<>>)).s

ErrorPrefix == <<"E", "r", "r", "o", "r", ":", " ">>

\* Variant: no catch block, every outcome is shown as an answer.
AssistantMessageNoCatch(b, o) ==
    [role |-> "assistant", text |-> AnswerText(b, o.data), meta |-> Meta(o.data)]

\* The assistant message the continuation appends: the try block's on
\* success, the catch block's otherwise.
AssistantMessage(b, o) ==
    IF Throws(o)
    THEN [role |-> "assistant", text |-> ErrorPrefix \o ErrorToString(Thrown(o)),
          meta |-> NoMeta]
    ELSE [role |-> "assistant", text |-> AnswerText(b, o.data), meta |-> Meta(o.data)]

\* The body of the POST; the older module sends no session_id.
RequestBody(b, text, sid) ==
    [message |-> text, debug |-> TRUE, session_id |-> IF b = "Chat.jsx" THEN sid ELSE NoSid]

\* Variant: Send stays enabled while loading.
SendEnabledIgnoringLoading(ld, inp) == trim(inp) # <<>>

\* The Send button is enabled.
SendEnabled(ld, inp) == ~ld /\ trim(inp) # <<>>

\* The textarea's onChange.
SetInput(v) ==
    /\ pageLoads > 0
    /\ tab = "chat"
    /\ input # v
    /\ input' = v
    /\ UNCHANGED <<browserVars, messages, loading, chatCalls, chatSent, chatSettled,
                   queryVars>>
    /\ PageFrame

\* The Clear button next to Send.
ClearInput ==
    /\ pageLoads > 0
    /\ tab = "chat"
    /\ input' = <<>>
    /\ UNCHANGED <<browserVars, messages, loading, chatCalls, chatSent, chatSettled,
                   queryVars>>
    /\ PageFrame

\* send(), up to its await: a click on the enabled Send button.
Send ==
    /\ pageLoads > 0
    /\ tab = "chat"
    /\ SendEnabled(loading, input)
    /\ Len(chatSent) < MaxSends
    /\ trim(input) # <<>>
    /\ LET text == trim(input)
           body == RequestBody(build, text, SESSION_ID)
       IN  /\ messages' = Append(messages, UserMessage(text))
           /\ chatCalls' = chatCalls \cup {[id |-> Len(chatSent) + 1, body |-> body,
                                            live |-> TRUE]}
           /\ chatSent' = Append(chatSent, [load |-> pageLoads, body |-> body])
    /\ input' = <<>>
    /\ loading' = TRUE
    /\ UNCHANGED <<browserVars, chatSettled, queryVars>>
    /\ PageFrame

\* The fetch of request id settles and send() runs to its end.  The state
\* setters of a Chat that has been unmounted change nothing.
Settle(id, o) ==
    /\ \E c \in chatCalls :
         /\ c.id = id
         /\ chatCalls' = chatCalls \ {c}
         /\ IF c.live
            THEN /\ messages' = Append(messages, AssistantMessage(build, o))
                 /\ loading' = FALSE
            ELSE UNCHANGED <<messages, loading>>
    /\ chatSettled' = chatSettled + 1
    /\ UNCHANGED <<browserVars, input, chatSent, queryVars>>
    /\ PageFrame

NextChat ==
    \/ \E b \in Builds, storage \in StorageModes : LoadPage(b, storage)
    \/ \E t \in {"query", "chat"} : SetTab(t)
    \/ \E v \in Inputs : SetInput(v)
    \/ ClearInput
    \/ Send
    \/ \E id \in 1..MaxSends, o \in Outcomes : Settle(id, o)

(***************************************************************************)
(* The Query tab of App: submitQuery(), its continuation, and Clear.       *)
(* submitQuestion() of the older App (nlptosqlagent) is the same code with *)
(* setLoading(false) after the try statement instead of in a finally.      *)
(***************************************************************************)
MaxQueries == 2

\* The Ask button is enabled.
AskEnabled(ld, q) == ~ld /\ trim(q) # <<>>

\* err.message || String(err)
ErrorShown(err) == Or(Str(err.message), Str(ErrorToString(err)))

\* The textarea's onChange.
SetQuestion(v) ==
    /\ pageLoads > 0
    /\ tab = "query"
    /\ queryQuestion # v
    /\ queryQuestion' = v
    /\ UNCHANGED <<browserVars, chatVars, queryLoading, result, error, queryCalls,
                   querySent, clearedSinceSubmit>>
    /\ PageFrame

\* Variant: the submit does not reset error.
submitQueryKeepingError ==
    /\ pageLoads > 0
    /\ tab = "query"
    /\ AskEnabled(queryLoading, queryQuestion)
    /\ querySent < MaxQueries
    /\ queryLoading' = TRUE
    /\ result' = Null
    /\ queryCalls' = queryCalls \cup {[id |-> querySent + 1, question |-> queryQuestion]}
    /\ querySent' = querySent + 1
    /\ clearedSinceSubmit' = FALSE
    /\ UNCHANGED <<browserVars, chatVars, queryQuestion, error>>
    /\ PageFrame

\* submitQuery(), up to its await: the form is submitted by the enabled Ask
\* button.
submitQuery ==
    /\ pageLoads > 0
    /\ tab = "query"
    /\ AskEnabled(queryLoading, queryQuestion)
    /\ querySent < MaxQueries
    /\ queryLoading' = TRUE
    /\ error' = Null
    /\ result' = Null
    /\ queryCalls' = queryCalls \cup {[id |-> querySent + 1, question |-> queryQuestion]}
    /\ querySent' = querySent + 1
    /\ clearedSinceSubmit' = FALSE
    /\ UNCHANGED <<browserVars, chatVars, queryQuestion>>
    /\ PageFrame

\* The fetch of request id settles and submitQuery() runs to its end.
SettleQuery(id, o) ==
    /\ \E c \in queryCalls :
         /\ c.id = id
         /\ queryCalls' = queryCalls \ {c}
    /\ IF Throws(o)
       THEN /\ error' = ErrorShown(Thrown(o))
            /\ UNCHANGED result
       ELSE /\ result' = o.data
            /\ UNCHANGED error
    /\ queryLoading' = FALSE
    /\ UNCHANGED <<browserVars, chatVars, queryQuestion, querySent, clearedSinceSubmit>>
    /\ PageFrame

\* The Clear button of the Query tab.  It is not disabled while loading and
\* leaves the pending fetch and `loading' alone.
ClearQuery ==
    /\ pageLoads > 0
    /\ tab = "query"
    /\ queryQuestion' = <<>>
    /\ result' = Null
    /\ error' = Null
    /\ clearedSinceSubmit' = TRUE
    /\ UNCHANGED <<browserVars, chatVars, queryLoading, queryCalls, querySent>>
    /\ PageFrame

NextQuery ==
    \/ \E b \in Builds, storage \in StorageModes : LoadPage(b, storage)
    \/ \E t \in {"query", "chat"} : SetTab(t)
    \/ \E v \in Inputs : SetQuestion(v)
    \/ submitQuery
    \/ \E id \in 1..MaxQueries, o \in Outcomes : SettleQuery(id, o)
    \/ ClearQuery

InitPage == InitBrowser /\ InitChat /\ InitQuery


vars == <<chartVars, biVars, bootVars, pageVars>>

\* The page before any result, the orchestrator idle, the process not started.
InitIdle ==
    /\ dataRows = NullRows
    /\ chartTypeOverride = NoOverride
    /\ view = NotRendered
    /\ InitBI
    /\ InitBoot
    /\ InitPage

\* A result set has arrived at the page.
InitResult == InitChart /\ InitBI /\ InitBoot /\ InitPage

\* ChartView over the result sets.
SpecChart == InitResult /\ [][NextChart]_vars

\* The BI path of one orchestrator.
SpecBI == InitIdle /\ [][NextBI]_vars

\* One start of the process.
SpecBoot == InitIdle /\ [][NextBoot]_vars

\* The Chat tab of one browser, over its page loads.
SpecChat == InitIdle /\ [][NextChat]_vars

\* The same, every pending fetch settling in the end.
SpecChatFair ==
    /\ InitIdle
    /\ [][NextChat]_vars
    /\ \A id \in 1..MaxSends : WF_vars(\E o \in Outcomes : Settle(id, o))

\* The Query tab.
SpecQuery == InitIdle /\ [][NextQuery]_vars

(***************************************************************************)
(* Properties of the chart inferencer, stated on the rendered state.       *)
(***************************************************************************)
Rendered == view.kind # "unrendered"

NonEmptyRows == dataRows.t = "array" /\ Len(dataRows.rows) > 0

Rows == dataRows.rows

Cols == ObjectKeys(Rows[1])

IsChart == view.kind \in {"pie", "bar", "line"}

\* The classification as the specification words it: the numeric-coercible
\* cells among the first min(rowCount, 50) rows, against min(5, rowCount / 2).
NumericSeen(rs, c) ==
    Cardinality({i \in 1..Min(Len(rs), 50) : isNumeric(Get(rs[i], c))})

NumericCandidate(rs, c) == NumericSeen(rs, c) >= Min(5, Len(rs) \div 2)

NumericPositions == {j \in 1..Len(Cols) : NumericCandidate(Rows, Cols[j])}

CategoricalPositions == {j \in 1..Len(Cols) : ~NumericCandidate(Rows, Cols[j])}

First(S) == CHOOSE j \in S : \A h \in S : j <= h

Later(a, b) == IF a >= b THEN a ELSE b

\* The result set with only its first p columns.
Project(rs, p) == [i \in 1..Len(rs) |-> SubSeq(rs[i], 1, p)]

\* C1: when the result set has a numeric-candidate and a categorical-candidate
\* column, numCol is the first numeric-candidate column and catCol the first
\* categorical-candidate column in column order, and the selection is that of
\* the result set cut after the later of the two: columns added, removed or
\* reordered behind them do not change it.
C1_FirstMatchSelection ==
    (Rendered /\ NonEmptyRows /\ NumericPositions # {} /\ CategoricalPositions # {})
    => LET pn == First(NumericPositions)
           pc == First(CategoricalPositions)
       IN  /\ view.kind \in {"pie", "bar"}
           /\ view.numCol = Cols[pn]
           /\ view.catCol = Cols[pc]
           /\ Selection(Project(Rows, Later(pn, pc))) = Selection(Rows)
           /\ Selection(Rows) = [catCol |-> Cols[pc], numCol |-> Cols[pn]]

\* Three columns, the first two of one kind and the third of the other kind.
C1_Witness ==
    /\ Rendered /\ NonEmptyRows /\ Len(Cols) = 3
    /\ NumericPositions = {2, 3}
    /\ CategoricalPositions = {1}
    /\ view.numCol = Cols[2]
    /\ view.catCol = Cols[1]

C3_Classification ==
    (Rendered /\ NonEmptyRows)
    => /\ \A j \in 1..Len(Cols) :
             IsNumericCandidate(Rows, Cols[j]) <=> NumericCandidate(Rows, Cols[j])
       /\ Len(Rows) > 50 =>
             \A j \in 1..Len(Cols) :
                IsNumericCandidate(Rows, Cols[j])
                   <=> IsNumericCandidate(SubSeq(Rows, 1, 50), Cols[j])
       /\ IsChart => (view.numCol = Cols[1] <=> NumericCandidate(Rows, Cols[1]))
       /\ view.kind \in {"pie", "bar"} =>
             (view.catCol = Cols[1] <=> ~NumericCandidate(Rows, Cols[1]))

\* 55 rows: text in the first 50, numbers in the last 5; the column is
\* categorical-candidate, so a single such column gives no chart.
C3_Witness ==
    /\ Rendered /\ NonEmptyRows /\ Len(Rows) = 55 /\ Len(Cols) = 1
    /\ \A i \in 1..50 : ~isNumeric(Get(Rows[i], Cols[1]))
    /\ \A i \in 51..55 : isNumeric(Get(Rows[i], Cols[1]))
    /\ ~IsNumericCandidate(Rows, Cols[1])
    /\ view.kind = "none"

\* C4: a result set of one column, that column numeric, gives a line chart
\* whose x labels are 1..N and whose y values are the column's values in row
\* order.
C4_SingleNumericColumnLine ==
    (Rendered /\ NonEmptyRows /\ Len(Cols) = 1 /\ NumericCandidate(Rows, Cols[1]))
    => /\ view.kind = "line"
       /\ Len(view.labels) = Len(Rows)
       /\ Len(view.values) = Len(Rows)
       /\ \A i \in 1..Len(Rows) :
             LET cell == Get(Rows[i], Cols[1]) IN
             /\ view.labels[i] = Num(i)
             /\ cell.t = "number" => view.values[i] = cell
             /\ view.values[i] = IF Nullish(cell) THEN Num(0) ELSE JSNumber(cell)

C4_Witness ==
    /\ Rendered /\ NonEmptyRows /\ Len(Cols) = 1 /\ Len(Rows) = 3
    /\ view.kind = "line"
    /\ view.labels = <<Num(1), Num(2), Num(3)>>
    /\ view.values = <<Num(7), Num(7), Num(-3)>>

\* A column whose sampled cells are all numeric-coercible, and one with none.
AllNumeric(rs, c) == NumericSeen(rs, c) = Min(Len(rs), 50)

NoneNumeric(rs, c) == NumericSeen(rs, c) = 0

\* C5: with exactly two columns, only one of them numeric, and no
\* categorical-candidate column found, the other column is treated as catCol
\* although it failed the categorical test: a pie or bar chart is produced
\* whose labels come from that other column and whose values come from the
\* numeric column.
C5_FallbackPlotsNumericColumn ==
    (Rendered /\ NonEmptyRows /\ Len(Cols) = 2 /\ CategoricalPositions = {})
    => \A p \in {1, 2} :
          LET num   == Cols[p]
              other == Cols[3 - p]
          IN  (AllNumeric(Rows, num) /\ NoneNumeric(Rows, other))
              => /\ view.kind \in {"pie", "bar"}
                 /\ view.catCol = other
                 /\ view.numCol = num
                 /\ \A i \in 1..Len(Rows) :
                       /\ view.labels[i] = JSString(Coalesce(Get(Rows[i], other), Str(<<>>)))
                       /\ view.values[i] = JSNumber(Coalesce(Get(Rows[i], num), Num(0)))

\* C6: the manual override is honoured: whenever a chart is produced under the
\* override "pie", "bar" or "line", it is a chart of that type.
C6_OverrideHonoured ==
    (Rendered /\ IsChart /\ chartTypeOverride \in {"bar", "pie", "line"})
    => view.kind = chartTypeOverride

\* C7: for an empty, null or undefined row set ChartView returns no chart and
\* throws nothing, whatever the override.
C7_EmptyNoChart ==
    (Rendered /\ ~NonEmptyRows) => view = NoChart

C7_Witness ==
    /\ dataRows = Array(<<>>)
    /\ chartTypeOverride = "pie"
    /\ view = NoChart

\* C8: in every pie or bar chart labels[i] is the string of row i's catCol
\* value, "" for null or undefined, and values[i] is the number of row i's
\* numCol value, 0 for null or undefined; one entry per row, in row order.
C8_LabelsAndValues ==
    (Rendered /\ view.kind \in {"pie", "bar"})
    => /\ NonEmptyRows
       /\ Len(view.labels) = Len(Rows)
       /\ Len(view.values) = Len(Rows)
       /\ \A i \in 1..Len(Rows) :
             LET cat == Get(Rows[i], view.catCol)
                 num == Get(Rows[i], view.numCol)
             IN  /\ Nullish(cat) => view.labels[i] = Str(<<>>)
                 /\ cat.t = "string" => view.labels[i] = cat
                 /\ cat = Num(7) => view.labels[i] = Str(<<"7">>)
                 /\ ~Nullish(cat) => view.labels[i] = JSString(cat)
                 /\ Nullish(num) => view.values[i] = Num(0)
                 /\ num.t = "number" => view.values[i] = num
                 /\ ~Nullish(num) => view.values[i] = JSNumber(num)

\* A chart with a null category and a null number in it.
C8_Witness ==
    /\ Rendered /\ NonEmptyRows /\ view.kind \in {"pie", "bar"}
    /\ \E i \in 1..Len(Rows) :
          /\ Get(Rows[i], view.catCol) = Null
          /\ view.labels[i] = Str(<<>>)
    /\ \E i \in 1..Len(Rows) :
          /\ Get(Rows[i], view.numCol) = Null
          /\ view.values[i] = Num(0)
    /\ \E i \in 1..Len(Rows) : view.labels[i] = Str(<<"A">>)
    /\ \E i \in 1..Len(Rows) : view.values[i] = Num(7)

(***************************************************************************)
(* Properties of the BI path.                                              *)
(***************************************************************************)
\* C9: the Query Executor is invoked only after SQL was extracted and the
\* validator accepted it; when no SQL is found or validation rejects it,
\* execution is never invoked and the envelope has safety_ok = false and empty
\* data, while sql (if any) and llm_raw are still returned.
C9_ExecuteOnlyValidated ==
    /\ execCalls # <<>> =>
          /\ biPc \in {"responded", "idle"}
          /\ execCalls = <<extract(llmRaw)>>
          /\ extract(llmRaw) # <<>>
          /\ Len(extract(llmRaw)) = 1
          /\ extract(llmRaw)[1] = "SELECT"
          /\ safetyOk
    /\ (envelope.sent /\ (extract(llmRaw) = <<>> \/ ~validate(extract(llmRaw)))) =>
          /\ execCalls = <<>>
          /\ envelope.safety_ok = FALSE
          /\ envelope.data = <<>>
          /\ envelope.sql = extract(llmRaw)
          /\ envelope.llm_raw = llmRaw
          /\ panel.shown => /\ panel.safety = "FAILED"
                            /\ panel.sqlText = IF envelope.sql = <<>>
                                               THEN <<"(no SQL)">> ELSE envelope.sql

\* "DROP TABLE seats;" in a code fence: extracted, rejected, not executed, shown.
C9_Witness ==
    /\ llmRaw = [fenced |-> TRUE, stmts |-> <<"DROP">>]
    /\ envelope.sent
    /\ envelope.sql = <<"DROP">>
    /\ envelope.safety_ok = FALSE
    /\ execCalls = <<>>
    /\ panel.shown /\ panel.safety = "FAILED"

(***************************************************************************)
(* Properties of the start-up scripts.                                     *)
(***************************************************************************)
ServiceGiven == ServiceCommand(bootScript, bootArgs) # <<>>

\* C10: whatever the exit status of the reindex job, zero or not, the script
\* goes on to launch the service command; the service is launched only after
\* the reindex attempt has ended, and a failed reindex is logged and ignored.
C10_ReindexNeverBlocksStart ==
    /\ bootPc # "aborted"
    /\ launched # <<>> => reindex.state # "running"
    /\ bootPc = "launched" =>
          /\ launched = ServiceCommand(bootScript, bootArgs)
          /\ reindex.state \in {"exited", "not run"}
    /\ (reindex.state = "exited" /\ ServiceGiven) =>
          /\ bootPc \in {"announce", "exec", "launched"}
          /\ bootPc # "launched" => ENABLED NextBoot
          /\ reindex.status # 0 =>
                \E i \in 1..Len(bootLog) :
                   bootLog[i] \in {"reindex failed, continuing...",
                                   "Reindex failed - continuing startup."}
          /\ reindex.status = 0 =>
                \A i \in 1..Len(bootLog) :
                   bootLog[i] \notin {"reindex failed, continuing...",
                                      "Reindex failed - continuing startup."}

\* The reindex failed and the service runs.
C10_Witness ==
    /\ bootPc = "launched"
    /\ reindex = [state |-> "exited", status |-> 1]
    /\ launched = Uvicorn
    /\ bootScript = "entrypoint"

\* C11: the reindex job is invoked at start-up when REINDEX_KB is unset or
\* equal to "true" and is not invoked for any other value; in both cases the
\* service command is launched.
C11_ToggleDecidesReindex ==
    /\ (bootPc \notin {"not started", "test", "wait"}) =>
          (reindex.state # "not run" <=> reindexToggle \in {Unset, "true"})
    /\ (bootPc \in {"launched", "exited"} /\ ServiceGiven) =>
          /\ bootPc = "launched"
          /\ launched = ServiceCommand(bootScript, bootArgs)

(***************************************************************************)
(* Further properties of the chart inferencer.                             *)
(***************************************************************************)
\* C13: for every non-empty row set, a single row included, a column with no
\* numeric-coercible value among its sampled rows is never selected as numCol,
\* so no chart plots the values of a purely textual column as numbers.
C13_TextColumnNeverNumCol ==
    (Rendered /\ NonEmptyRows) =>
       /\ Truthy(Selection(Rows).numCol) => NumericSeen(Rows, Selection(Rows).numCol) > 0
       /\ IsChart => NumericSeen(Rows, view.numCol) > 0

(***************************************************************************)
(* The session id and the chat transcript.                                 *)
(***************************************************************************)
\* The requests of the module that sends a session_id.
WithSessionId == build = "Chat.jsx"

Loads == DOMAIN loadLog

Requests == DOMAIN chatSent

Count(role) == Cardinality({i \in DOMAIN messages : messages[i].role = role})

\* user, assistant, user, ...
Alternates ==
    \A i \in DOMAIN messages :
        messages[i].role = IF i % 2 = 1 THEN "user" ELSE "assistant"

\* The pending fetches whose Chat is still mounted.
LiveCalls == {c \in chatCalls : c.live}

IsPrefix(p, s) == Len(s) >= Len(p) /\ SubSeq(s, 1, Len(p)) = p

LastMessage(msgs) == msgs[Len(msgs)]

\* getSessionId stores an id only when none is stored, and returns the
\* stored id, untouched, when there is one.
StoresOnlyWhenNoneStored ==
    \A a \in Loads :
        /\ loadLog[a].sid # NoSid
        /\ loadLog[a].before # NoSid =>
              /\ loadLog[a].after = loadLog[a].before
              /\ loadLog[a].sid = loadLog[a].before
        /\ loadLog[a].before = NoSid /\ loadLog[a].after # NoSid =>
              loadLog[a].sid = loadLog[a].after

\* C12 as stated: any two /api/chat requests of one browser carry the same
\* session_id, within one page lifetime and across page reloads; and
\* getSessionId stores a new id only when none is stored and otherwise
\* returns the stored id without changing storage.
C12_SameSessionIdEverywhere ==
    WithSessionId =>
       /\ \A i, j \in Requests :
             chatSent[i].body.session_id = chatSent[j].body.session_id
       /\ StoresOnlyWhenNoneStored

\* C12, amended: every request of one page lifetime carries that page's
\* SESSION_ID; two page loads share the id when localStorage worked at the
\* earlier one and could be read at the later one, while a page load whose
\* localStorage access throws gets an id of its own that is not stored;
\* getSessionId stores an id only when none is stored and storage works, and
\* otherwise leaves storage as it was.
C12_SessionIdStableWhileStorageWorks ==
    WithSessionId =>
       /\ \A i \in Requests :
             chatSent[i].body.session_id = loadLog[chatSent[i].load].sid
       /\ \A a, b \in Loads :
             (a < b /\ loadLog[a].storage = "ok" /\ loadLog[b].storage # "blocked") =>
                 loadLog[b].sid = loadLog[a].sid
       /\ \A a \in Loads :
             /\ loadLog[a].sid # NoSid
             /\ loadLog[a].storage = "ok" => loadLog[a].after = loadLog[a].sid
             /\ loadLog[a].storage # "ok" => loadLog[a].after = loadLog[a].before
             /\ loadLog[a].before # NoSid =>
                   /\ loadLog[a].after = loadLog[a].before
                   /\ loadLog[a].storage # "blocked" => loadLog[a].sid = loadLog[a].before
             /\ loadLog[a].storage = "blocked" =>
                   \A b \in Loads : b # a => loadLog[b].sid # loadLog[a].sid
             /\ a > 1 => loadLog[a].before = loadLog[a - 1].after
       /\ pageLoads > 0 =>
             /\ SESSION_ID = loadLog[pageLoads].sid
             /\ storageItem = loadLog[pageLoads].after

\* Two requests of two page loads carry the id that the first load stored.
C12_Witness ==
    /\ WithSessionId
    /\ \E i, j \in Requests :
          /\ chatSent[i].load < chatSent[j].load
          /\ loadLog[chatSent[i].load].before = NoSid
          /\ chatSent[i].body.session_id = storageItem
          /\ chatSent[j].body.session_id = storageItem

\* C14 as stated: user messages minus assistant messages is 0 or 1, and is 1
\* exactly while a request is in flight (loading = true); at most one
\* /api/chat request is in flight at a time; the transcript alternates
\* user, assistant.
C14_OneRequestInFlight ==
    pageLoads > 0 =>
       /\ Count("user") - Count("assistant") \in {0, 1}
       /\ Count("user") - Count("assistant") = 1 <=> loading
       /\ loading <=> chatCalls # {}
       /\ Cardinality(chatCalls) <= 1
       /\ Alternates

\* C14, amended: user messages minus assistant messages is 0 or 1, and is 1
\* exactly while loading is true, which is exactly while a request of the
\* mounted Chat is pending; the mounted Chat has at most one pending request,
\* Send being disabled while loading, and its transcript alternates user,
\* assistant.  Requests of a Chat that was unmounted by a change of tab may
\* still be in flight beside it.
C14_OneRequestPerMountedChat ==
    pageLoads > 0 =>
       /\ Count("user") - Count("assistant") \in {0, 1}
       /\ Count("user") - Count("assistant") = 1 <=> loading
       /\ loading <=> LiveCalls # {}
       /\ Cardinality(LiveCalls) <= 1
       /\ loading => ~ENABLED Send
       /\ Alternates
       /\ tab = "query" => messages = <<>> /\ ~loading

\* The second request of one Chat is pending, the first one answered.
C14_Witness ==
    /\ loading
    /\ Len(messages) = 3
    /\ Cardinality(LiveCalls) = 1

Settling == \E id \in 1..MaxSends, o \in Outcomes : Settle(id, o)

\* C15 as stated, in its finite-run form: whenever the fetch of an accepted
\* send settles, one assistant message is appended and loading is false.
C15_SettledSendIsAnswered ==
    [][Settling =>
          /\ Len(messages') = Len(messages) + 1
          /\ LastMessage(messages').role = "assistant"
          /\ ~loading']_vars

\* What a settled fetch of the mounted Chat leaves behind.
AnsweredBy(id, o) ==
    /\ Len(messages') = Len(messages) + 1
    /\ SubSeq(messages', 1, Len(messages)) = messages
    /\ LastMessage(messages').role = "assistant"
    /\ IF o.kind = "json" /\ o.status >= 200 /\ o.status <= 299
       THEN LastMessage(messages').meta = Meta(o.data)
       ELSE /\ LastMessage(messages').meta = NoMeta
            /\ IsPrefix(ErrorPrefix, LastMessage(messages').text)
    /\ ~loading'

\* C15, amended: every accepted send whose Chat stays mounted until the fetch
\* settles is followed by exactly one assistant message and by loading
\* returning to false: the message carries the response as meta on a 2xx JSON
\* response and is a text beginning with "Error: " without meta otherwise;
\* after it the client accepts the next send.  When the Chat tab is left
\* before the fetch settles, the answer is dropped.
C15_MountedSendIsAnswered ==
    /\ [][\A id \in 1..MaxSends, o \in Outcomes :
             (Settle(id, o) /\ \E c \in LiveCalls : c.id = id) => AnsweredBy(id, o)]_vars
    /\ [][(loading /\ ~loading') =>
             (Settling \/ tab' # tab \/ pageLoads' # pageLoads)]_vars
    /\ [][(Len(messages') > Len(messages) /\ LastMessage(messages').role = "assistant") =>
             Settling]_vars
    /\ [](ENABLED Send <=>
             /\ tab = "chat" /\ pageLoads > 0
             /\ ~loading /\ trim(input) # <<>> /\ Len(chatSent) < MaxSends)
    /\ (loading ~> ~loading)

\* An answer and an error, each after its own send, and Send free again.
C15_Witness ==
    /\ Len(messages) = 4
    /\ messages[2].meta.has
    /\ ~messages[4].meta.has
    /\ IsPrefix(ErrorPrefix, messages[4].text)
    /\ ~loading

(***************************************************************************)
(* The Query tab.                                                          *)
(***************************************************************************)
SettlingQuery(o) == \E id \in 1..MaxQueries : SettleQuery(id, o)

\* C16: in the Query tab result and error are never both non-null: each
\* submit first resets both to null, the response then sets exactly one of
\* them (result on a 2xx JSON response, error otherwise), and Clear sets both
\* to null.
C16_ResultXorError ==
    /\ [](~(result # Null /\ error # Null))
    /\ [][submitQuery => (result' = Null /\ error' = Null)]_vars
    /\ [][\A o \in Outcomes :
             SettlingQuery(o) =>
                IF o.kind = "json" /\ o.status >= 200 /\ o.status <= 299
                THEN result' = o.data /\ result' # Null /\ error' = Null
                ELSE error' # Null /\ error'.t = "string" /\ error'.s # <<>>
                     /\ result' = Null]_vars
    /\ [][ClearQuery => (result' = Null /\ error' = Null)]_vars

\* A second question was answered with rows after a first one was asked.
C16_Witness ==
    /\ querySent = 2
    /\ queryCalls = {}
    /\ result # Null
    /\ error = Null
    /\ ~queryLoading

\* C17: once Clear has been pressed, result and error stay null until the
\* next submit, also when Clear is pressed while a request is in flight.
C17_ClearedStaysCleared ==
    clearedSinceSubmit => (result = Null /\ error = Null)

====
